---- MODULE Spec2Model ----
(***************************************************************************)
(* A model of BlackScholes.py: the Black-Scholes pricer (option_price),    *)
(* its helpers (d, normal_pdf, normal_cdf, _vega), the Newton-Raphson      *)
(* solver (implied_volatility), the expiry-date converter (time_to_expiry) *)
(* and the command surface (main).                                         *)
(*                                                                         *)
(* NUMBERS.  A Python float is modelled as a fixed-point integer: the      *)
(* integer v stands for the real v / SCALE, for -MaxFin <= v <= MaxFin.    *)
(* Products and quotients are rounded to nearest, as the double's are: the *)
(* model has about 6 decimals where the double has about 16.  Beside the  *)
(* finite values there are the double's special                            *)
(* values INF, NINF and NAN, the exceptions Python raises in place of a    *)
(* value (ZeroDivisionError, ValueError, TypeError, AttributeError), the   *)
(* absent argument None, and OutOfRange.  OutOfRange marks a value the     *)
(* double holds and the model cannot: a finite value above MaxFin, or a    *)
(* non-zero value below 1 / SCALE.  A run that meets OutOfRange is cut     *)
(* there (pc = "cut"): the model never continues with a zero or an         *)
(* infinity that the double would not produce.  In particular math.exp     *)
(* yields 0 exactly where the double underflows to 0.0 (below              *)
(* -1075 * ln 2), so that a zero vega in the model is a zero vega of the   *)
(* program.                                                                *)
(***************************************************************************)
EXTENDS Integers, Sequences, FiniteSets, TLC

\* ------------------------------------------------------------------------
\* The value domain
\* ------------------------------------------------------------------------

K == 10 ^ 3
\* The fixed-point unit: the integer SCALE stands for 1.0.
SCALE == K * K
\* The largest finite magnitude of the model (2000.0).
MaxFin == 2000 * SCALE
\* The largest divisor the long division takes (200.0).
MaxDivisor == 200 * SCALE

INF == MaxFin + 1
NINF == -INF
NAN == MaxFin + 2
ZeroDivisionError == MaxFin + 3
ValueError == MaxFin + 4
TypeError == MaxFin + 5
AttributeError == MaxFin + 6
OutOfRange == MaxFin + 7
None == MaxFin + 8

IsFin(v) == -MaxFin <= v /\ v <= MaxFin
IsInf(v) == v = INF \/ v = NINF
\* v is a float: finite, infinite or NaN.
IsFloat(v) == IsFin(v) \/ IsInf(v) \/ v = NAN
\* v is a raised exception, or the mark of a cut run.
IsExc(v) == v >= ZeroDivisionError /\ v <= OutOfRange
IsRaised(v) == v >= ZeroDivisionError /\ v <= AttributeError

Abs(n) == IF n < 0 THEN -n ELSE n
Sgn(n) == IF n < 0 THEN -1 ELSE IF n > 0 THEN 1 ELSE 0
\* The sign of a float that is not NaN (zero counts as positive).
SignOf(v) == IF v < 0 THEN -1 ELSE 1

\* n / d as a fixed-point number, for small literals (Fx(1, 2) is 0.5).
Fx(n, d) == (n * SCALE) \div d

\* ------------------------------------------------------------------------
\* Float arithmetic: + - * /
\* ------------------------------------------------------------------------

\* An operand that is no float: an exception passes through, None is a TypeError.
Bad(a, b) ==
  IF IsExc(a) THEN a
  ELSE IF IsExc(b) THEN b
  ELSE IF a = None \/ b = None THEN TypeError
  ELSE 0

IsBad(a, b) == IsExc(a) \/ IsExc(b) \/ a = None \/ b = None

FNeg(a) ==
  IF IsExc(a) THEN a
  ELSE IF a = None THEN TypeError
  ELSE IF a = NAN THEN NAN
  ELSE -a

FAdd(a, b) ==
  IF IsBad(a, b) THEN Bad(a, b)
  ELSE IF a = NAN \/ b = NAN THEN NAN
  ELSE IF IsInf(a) THEN (IF IsInf(b) /\ a # b THEN NAN ELSE a)
  ELSE IF IsInf(b) THEN b
  ELSE IF a > 0 /\ b > MaxFin - a THEN OutOfRange
  ELSE IF a < 0 /\ b < (-MaxFin) - a THEN OutOfRange
  ELSE a + b

FSub(a, b) == FAdd(a, FNeg(b))

\* A magnitude p, or -1 when it is above MaxFin.
Clip(p) == IF p > MaxFin THEN -1 ELSE p

\* The float of sign sg (-1 or 1) and magnitude p; OutOfRange when p is -1 (too
\* large) or 0 (the rounding of a non-zero product or quotient).
Signed(sg, p) ==
  IF p = -1 \/ p = 0 THEN OutOfRange ELSE IF sg < 0 THEN -p ELSE p

\* a * b / SCALE rounded to nearest, for 0 <= a, b <= MaxFin, or -1 when it is
\* above MaxFin.  a = a1*K + a0 and b = b1*K + b0, so that no partial product
\* leaves 32 bits.
MulParts(a1, a0, b1, b0) ==
  IF a1 > 0 /\ b1 > MaxFin \div a1 THEN -1
  ELSE Clip(a1 * b1 + (a1 * b0 + a0 * b1 + (a0 * b0 + SCALE \div 2) \div K) \div K)

MulAbs(a, b) == MulParts(a \div K, a % K, b \div K, b % K)

FMul(a, b) ==
  IF IsBad(a, b) THEN Bad(a, b)
  ELSE IF a = NAN \/ b = NAN THEN NAN
  ELSE IF IsInf(a) \/ IsInf(b) THEN
    (IF a = 0 \/ b = 0 THEN NAN
     ELSE IF SignOf(a) = SignOf(b) THEN INF ELSE NINF)
  ELSE IF a = 0 \/ b = 0 THEN 0
  ELSE Signed(Sgn(a) * Sgn(b), MulAbs(Abs(a), Abs(b)))

\* n more decimal digits of r / b, appended to acc and rounded to nearest
\* (0 <= r < b <= MaxDivisor).
RECURSIVE DivDigits(_, _, _, _)
DivDigits(r, b, n, acc) ==
  IF n = 0 THEN acc + (IF 2 * r >= b THEN 1 ELSE 0)
  ELSE DivDigits((r * 10) % b, b, n - 1, acc * 10 + (r * 10) \div b)

\* a * SCALE / b rounded to nearest, for 0 <= a <= MaxFin, 0 < b <= MaxDivisor,
\* or -1 when it is above MaxFin.
DivAbs(a, b) ==
  IF a \div b > MaxFin \div SCALE THEN -1
  ELSE Clip(DivDigits(a % b, b, 6, a \div b))

\* a / b.  np: one operand is a numpy.float64, whose division by zero yields
\* inf or nan (with a RuntimeWarning on stderr); between two Python floats it
\* raises ZeroDivisionError.
FDiv(a, b, np) ==
  IF IsBad(a, b) THEN Bad(a, b)
  ELSE IF b = 0 THEN
    (IF ~np THEN ZeroDivisionError
     ELSE IF a = NAN \/ a = 0 THEN NAN
     ELSE IF a > 0 THEN INF ELSE NINF)
  ELSE IF a = NAN \/ b = NAN THEN NAN
  ELSE IF IsInf(a) THEN
    (IF IsInf(b) THEN NAN
     ELSE IF SignOf(a) = SignOf(b) THEN INF ELSE NINF)
  ELSE IF IsInf(b) THEN 0
  ELSE IF a = 0 THEN 0
  ELSE IF Abs(b) > MaxDivisor THEN OutOfRange
  ELSE Signed(Sgn(a) * Sgn(b), DivAbs(Abs(a), Abs(b)))

\* a < b on floats: False when either is NaN.
FLt(a, b) == a # NAN /\ b # NAN /\ a < b

\* operator.abs
FAbs(a) ==
  IF IsExc(a) THEN a
  ELSE IF a = None THEN TypeError
  ELSE IF a = NAN THEN NAN
  ELSE Abs(a)

\* ------------------------------------------------------------------------
\* The math module: math.pow(., 2), math.sqrt, math.log, math.exp, math.pi
\* ------------------------------------------------------------------------

\* math.pi
PI == 3141593
\* ln 2, for the range reduction of math.log and math.exp.
LN2 == 693147

\* Signed fixed-point product, for the series below (operands stay small).
SMul(a, b) ==
  IF Sgn(a) * Sgn(b) < 0 THEN -MulAbs(Abs(a), Abs(b)) ELSE MulAbs(Abs(a), Abs(b))

\* math.pow(y, 2)
MathPow2(y) == FMul(y, y)

\* Newton's iteration y <- (y + v / y) / 2 from above, until it stops falling.
RECURSIVE SqrtNewton(_, _, _)
SqrtNewton(v, y, y2) ==
  IF y2 >= y THEN y ELSE SqrtNewton(v, y2, (y2 + DivAbs(v, y2)) \div 2)

\* The square root of a finite v > 0, from the estimate y >= sqrt(v).
Sqrt(v, y) == SqrtNewton(v, y, (y + DivAbs(v, y)) \div 2)

\* math.sqrt(v): ValueError (math domain error) for a negative v.
MathSqrt(v) ==
  IF IsExc(v) THEN v
  ELSE IF v = None THEN TypeError
  ELSE IF v = NAN THEN NAN
  ELSE IF v < 0 THEN ValueError
  ELSE IF v = INF THEN INF
  ELSE IF v = 0 THEN 0
  ELSE Sqrt(v, IF v > 50 * SCALE THEN 50 * SCALE
                ELSE IF v > SCALE THEN v ELSE SCALE)

\* sum of f^k / k! from the term of index k on (0 <= f < ln 2).
RECURSIVE ExpSeries(_, _, _, _)
ExpSeries(f, term, k, acc) ==
  IF term = 0 THEN acc
  ELSE ExpSeries(f, MulAbs(term, f) \div k, k + 1, acc + term)

\* exp(v) for -21 * LN2 <= v <= 10 * LN2: v = n * ln 2 + f, exp(v) = 2^n * exp(f).
ExpShift(n, e) == IF n >= 0 THEN e * 2 ^ n ELSE e \div 2 ^ (-n)

ExpFix(v) == ExpShift(v \div LN2, ExpSeries(v % LN2, SCALE, 1, 0))

\* A computed exponential e, OutOfRange when it is not a float of the model.
ExpResult(e) == IF e = 0 \/ e > MaxFin THEN OutOfRange ELSE e

\* math.exp(v).  The double underflows to 0.0 below -1075 * ln 2 (about
\* -745.13); above that its result is non-zero.
MathExp(v) ==
  IF IsExc(v) THEN v
  ELSE IF v = None THEN TypeError
  ELSE IF v = NAN THEN NAN
  ELSE IF v = INF THEN INF
  ELSE IF v = NINF THEN 0
  ELSE IF v < -(1075 * LN2) THEN 0
  ELSE IF v < -(21 * LN2) \/ v > 10 * LN2 THEN OutOfRange
  ELSE ExpResult(ExpFix(v))

\* m / 2^n in [1, 2): the mantissa of v > 0 (as <<m, n>>).
RECURSIVE Frexp(_, _)
Frexp(m, n) ==
  IF m >= 2 * SCALE THEN Frexp(m \div 2, n + 1)
  ELSE IF m < SCALE THEN Frexp(m * 2, n - 1)
  ELSE <<m, n>>

\* sum of z^(2j+1) / (2j+1) from the odd power pw = z^k on (z2 = z^2).
RECURSIVE AtanhSeries(_, _, _, _)
AtanhSeries(z2, pw, k, acc) ==
  IF pw = 0 THEN acc
  ELSE AtanhSeries(z2, MulAbs(pw, z2), k + 2, acc + pw \div k)

\* 2 atanh(z)
Atanh2(z) == 2 * AtanhSeries(MulAbs(z, z), z, 1, 0)

LnParts(mn) == mn[2] * LN2 + Atanh2(DivAbs(mn[1] - SCALE, mn[1] + SCALE))

\* ln v for a finite v > 0: v = m * 2^n, ln v = n ln 2 + 2 atanh((m-1)/(m+1)).
Ln(v) == LnParts(Frexp(v, 0))

\* math.log(v): ValueError (math domain error) for v <= 0.
MathLog(v) ==
  IF IsExc(v) THEN v
  ELSE IF v = None THEN TypeError
  ELSE IF v = NAN THEN NAN
  ELSE IF v <= 0 THEN ValueError
  ELSE IF v = INF THEN INF
  ELSE Ln(v)

\* ------------------------------------------------------------------------
\* scipy.stats.norm.cdf
\* ------------------------------------------------------------------------

\* The coefficients p, b1 .. b5 of the rational approximation of the standard
\* normal distribution function (Abramowitz and Stegun 26.2.17, error < 7.5e-8).
NdtrCoef == <<231642, 319382, -356564, 1781478, -1821256, 1330274>>

\* Beyond 5.5 the distribution function is 0 or 1 to the model's 6 decimals.
NdtrSat == Fx(11, 2)

\* Phi(z) for 0 <= z < NdtrSat: 1 - phi(z) (b1 t + .. + b5 t^5), t = 1 / (1 + p z).
NdtrPoly(t, c) ==
  SMul(t, c[2] + SMul(t, c[3] + SMul(t, c[4] + SMul(t, c[5] + SMul(t, c[6])))))

NdtrPos(z) ==
  SCALE - MulAbs(DivAbs(ExpFix(-(MulAbs(z, z) \div 2)), Sqrt(2 * PI, 2 * PI)),
                 NdtrPoly(DivAbs(SCALE, SCALE + MulAbs(NdtrCoef[1], z)), NdtrCoef))

\* The standard normal distribution function, a numpy.float64.  It satisfies
\* Phi(z) + Phi(-z) = 1; Phi(nan) = nan.
Ndtr(z) ==
  IF IsExc(z) THEN z
  ELSE IF z = None THEN TypeError
  ELSE IF z = NAN THEN NAN
  ELSE IF z >= NdtrSat THEN SCALE
  ELSE IF z <= -NdtrSat THEN 0
  ELSE IF z = 0 THEN SCALE \div 2
  ELSE IF z >= 0 THEN NdtrPos(z)
  ELSE SCALE - NdtrPos(-z)

\* ------------------------------------------------------------------------
\* The core: normal_pdf, normal_cdf, d, option_price, _vega
\* ------------------------------------------------------------------------

\* math.exp((-1 * math.pow((y - mean), 2)) / 2 * math.pow(sigma, 2))
\*   / (math.sqrt(2.0 * math.pi) * sigma)
\* The exponent is -(y - mean)^2 / 2 TIMES sigma^2, as Python parses it.
normal_pdf(y, mean, sigma) ==
  LET numerator ==
        MathExp(FMul(FDiv(FMul(-SCALE, MathPow2(FSub(y, mean))), 2 * SCALE, FALSE),
                     MathPow2(sigma)))
      denominator == FMul(MathSqrt(FMul(2 * SCALE, PI)), sigma)
  IN FDiv(numerator, denominator, FALSE)

\* stats.norm.cdf(z, mean, sigma): the distribution function at (z - mean) / sigma,
\* nan for a scale sigma <= 0.
normal_cdf(z, mean, sigma) ==
  IF IsBad(z, sigma) THEN Bad(z, sigma)
  ELSE IF sigma = NAN \/ sigma <= 0 THEN NAN
  ELSE Ndtr(FDiv(FSub(z, mean), sigma, TRUE))

\* The functions of the operator module that d is called with, and a call of one.
operator_add == "add"
operator_sub == "sub"
CallOperator(operator, a, b) == IF operator = operator_add THEN FAdd(a, b) ELSE FSub(a, b)

\* [ln(s / x) + (r +- sigma^2 / 2) tau] / (sigma sqrt(tau)); operator is
\* operator.add for d1 and operator.sub for d2.  np: sigma is a numpy.float64
\* (it is one after the solver's first update, line 179), and so is the
\* denominator: the last division then yields inf or nan for a zero denominator
\* where two Python floats raise ZeroDivisionError.
d(s, x, r, sigma, tau, operator, np) ==
  LET numerator ==
        FAdd(MathLog(FDiv(s, x, FALSE)),
             FMul(CallOperator(operator, r, FDiv(MathPow2(sigma), 2 * SCALE, FALSE)), tau))
      denominator == FMul(sigma, MathSqrt(tau))
  IN FDiv(numerator, denominator, np)

\* A variant for the sensitivity check of C5: d1 and d2 left unnegated for a put.
PutSignKept(put, dv) == dv

\* put: the outcome of the test  option_type is "put"  (lines 112 and 123).
\* lines 112-114: if option_type is "put": d1 = -1 * d1; d2 = -1 * d2
PutSign(put, dv) == IF put THEN FMul(-SCALE, dv) ELSE dv

\* lines 112-127, from the d1 and d2 of lines 109 and 110.
PriceFrom(s, x, r, tau, put, d1, d2) ==
  LET weighted_stock_price == FMul(s, normal_cdf(PutSign(put, d1), 0, SCALE))
      discounted_strike_price == FMul(x, MathExp(FMul(FNeg(r), tau)))
      weighted_strike_price ==
        FMul(discounted_strike_price, normal_cdf(PutSign(put, d2), 0, SCALE))
  IN IF IsExc(d1) THEN d1
     ELSE IF IsExc(d2) THEN d2
     ELSE IF put THEN FSub(weighted_strike_price, weighted_stock_price)
     ELSE FSub(weighted_stock_price, weighted_strike_price)

option_price(s, x, r, sigma, tau, put, np) ==
  PriceFrom(s, x, r, tau, put, d(s, x, r, sigma, tau, operator_add, np),
            d(s, x, r, sigma, tau, operator_sub, np))

\* s * math.sqrt(tau) * normal_pdf(d1)
VegaFrom(s, tau, d1) ==
  IF IsExc(d1) THEN d1
  ELSE FMul(FMul(s, MathSqrt(tau)), normal_pdf(d1, 0, SCALE))

_vega(s, x, r, sigma, tau, np) == VegaFrom(s, tau, d(s, x, r, sigma, tau, operator_add, np))

\* ------------------------------------------------------------------------
\* The solver's tests and the collaborators
\* ------------------------------------------------------------------------

\* sigma = 0.5, the initial estimation
InitialSigma == Fx(1, 2)

\* Variants for the sensitivity checks of C1 and C9: the test without the
\* absolute value, and the test against a hundred times the precision.
AcceptNoAbs(diff, precision) == FLt(diff, precision)
AcceptLoose(diff, precision) == FLt(FAbs(diff), FMul(100 * SCALE, precision))

\* operator.abs(diff) < precision
Accept(diff, precision) == FLt(FAbs(diff), precision)

\* A variant for the sensitivity check of C2: one iteration too many.
InRangeInclusive(i, iterations) == i <= iterations

\* for i in range(0, iterations): the body runs for i = 0 .. iterations - 1.
InRange(i, iterations) == i < iterations

\* A str object: its text, and whether it is the interpreter's constant for
\* that text ("const": a literal of the code, such as the default "call") or
\* an object built at run time ("argv": a command-line word).
Str(text, obj) == [str |-> text, obj |-> obj]

\* option_type is "put": identity, not equality.  It holds of the constant
\* "put" itself; a run-time string that spells put is another object.
IsPut(option_type) == option_type.str = "put" /\ option_type.obj = "const"

seconds_in_year == 31536000

\* time_to_expiry(expiry_date): the seconds from now to 23:59:59 of the expiry
\* day, over seconds_in_year.  expiry_date is the expiry day counted from
\* today, now the seconds since midnight; None has no split (AttributeError).
YearFraction(total_seconds) ==
  IF total_seconds = 0 THEN 0
  ELSE Signed(Sgn(total_seconds), DivAbs(Abs(total_seconds), seconds_in_year))

time_to_expiry(expiry_date, now) ==
  IF expiry_date = None THEN AttributeError
  ELSE YearFraction(expiry_date * 86400 + (86399 - now))

\* if args.tau: a float is true unless it is 0.0, None is false.
Truthy(v) == v # None /\ v # 0

\* lines 204-207: the tau main passes on.
ResolveTau(a, now) ==
  IF Truthy(a.tau) THEN a.tau ELSE time_to_expiry(a.expirydate, now)

\* ------------------------------------------------------------------------
\* The program's state
\* ------------------------------------------------------------------------

VARIABLES
  args,       \* main: the parsed command line (args.s .. args.iterations)
  now,        \* the clock datetime.now() reads: seconds since midnight
  sigma0,     \* the volatility args.mp was priced at, or None (a test's input)
  pc,         \* where the run is: "main", "loop", "done", "raised", "cut"
  tau,        \* main: the tau passed to the core, None before line 204
  converted,  \* whether time_to_expiry was called
  sigma,      \* implied_volatility: the estimate
  i,          \* implied_volatility: the loop index
  bs_p,       \* implied_volatility: the last price, None if none yet
  diff,       \* implied_volatility: the last mp - bs_p
  vega,       \* implied_volatility: the vega of the last iteration, None if
              \* that iteration computed none
  nprice,     \* the solver's calls of option_price so far
  nvega,      \* the solver's calls of _vega so far
  out,        \* standard output: the lines printed, each <<label, value>>
  ret,        \* what option_price or implied_volatility returned to main
  exc,        \* the exception that ended the run, None if none
  how,        \* how implied_volatility returned: "" (not yet), "converged"
              \* (line 175) or "exhausted" (line 183)
  hIn,        \* a direct call of a core function: its arguments
  hOut        \* a direct call of a core function: its results

vars == <<args, now, sigma0, pc, tau, converted, sigma, i, bs_p, diff, vega,
          nprice, nvega, out, ret, exc, how, hIn, hOut>>

mainVars == <<args, now, sigma0, pc, tau, converted, sigma, i, bs_p, diff, vega,
              nprice, nvega, out, ret, exc, how>>

\* ------------------------------------------------------------------------
\* The inputs
\* ------------------------------------------------------------------------

\* The largest --iterations a run is given.
MaxIter == 3

\* -p and -i default to 1e-4 and 100 (lines 196, 197).
DefaultPrecision == Fx(1, 10000)
DefaultIterations == 100

\* -t and -ed as given together: <<tau, expiry day>>.
TimeArgs ==
  { <<SCALE, None>>, <<Fx(1, 100), None>>, <<Fx(12, 10000), None>>,
    <<SCALE, 365>>, <<0, 365>>, <<0, None>>, <<-SCALE, None>>,
    <<None, 365>>, <<None, 4>>, <<None, -10>>, <<None, None>> }

Clocks == {0, 43200}

\* -ot absent (the default, a constant of the code) or given on the command line.
OptionTypes == {Str("call", "const"), Str("call", "argv"), Str("put", "argv")}

Arg(s, x, r, sg, mp, te, ot, mode, precision, iterations) ==
  [s |-> s, x |-> x, r |-> r, sigma |-> sg, mp |-> mp, tau |-> te[1],
   expirydate |-> te[2], optiontype |-> ot, mode |-> mode,
   precision |-> precision, iterations |-> iterations]

\* Runs in pricing mode, valid and invalid.
PriceArgs ==
  { Arg(s, x, Fx(1, 20), sg, None, te, ot, "optionprice", DefaultPrecision,
        DefaultIterations) :
      s \in {-SCALE, 0, SCALE, 2 * SCALE}, x \in {-SCALE, 0, SCALE, 2 * SCALE},
      sg \in {None, -Fx(1, 5), 0, Fx(1, 5)}, te \in TimeArgs, ot \in OptionTypes }

\* Runs in implied-volatility mode with a market price of the user's.
SolveArgs ==
  { Arg(s, x, r, None, mp, te, ot, "impliedvolatility", precision, iterations) :
      s \in {SCALE, 2 * SCALE}, x \in {SCALE, 2 * SCALE}, r \in {0, Fx(1, 20)},
      mp \in {None, Fx(1, 10), Fx(101, 100)}, te \in TimeArgs,
      ot \in {Str("call", "const"), Str("put", "argv")},
      precision \in {DefaultPrecision, Fx(1, 100)}, iterations \in 0 .. MaxIter }

\* The volatilities of the round trip, inside (0.01, 3.0).
Sigma0s == {Fx(1, 50), Fx(1, 5), Fx(1, 2), SCALE, Fx(5, 2)}

\* Round trips: args.mp = option_price(s, x, r, sigma0, tau), default option
\* type and precision, valid s, x, r, tau.
RoundTrips ==
  { <<Arg(s, x, r, None, option_price(s, x, r, s0, ta, FALSE, FALSE), <<ta, None>>,
          Str("call", "const"), "impliedvolatility", DefaultPrecision, MaxIter),
      s0>> :
      s \in {SCALE, 2 * SCALE}, x \in {SCALE, 2 * SCALE}, r \in {0, Fx(1, 20)},
      ta \in {SCALE, Fx(1, 100)}, s0 \in Sigma0s }

Start ==
  /\ pc = "main" /\ tau = None /\ converted = FALSE
  /\ sigma = None /\ i = 0 /\ bs_p = None /\ diff = None /\ vega = None
  /\ nprice = 0 /\ nvega = 0 /\ out = <<>> /\ ret = None /\ exc = None
  /\ how = ""
  /\ hIn = None /\ hOut = None

Init ==
  /\ \/ args \in PriceArgs \cup SolveArgs /\ sigma0 = None
     \/ \E rt \in RoundTrips : IsFin(rt[1].mp) /\ args = rt[1] /\ sigma0 = rt[2]
  /\ now \in (IF args.expirydate = None THEN {0} ELSE Clocks)
  /\ Start

\* ------------------------------------------------------------------------
\* main and implied_volatility
\* ------------------------------------------------------------------------

\* The run ends on the exception e, or is cut where the model's numbers end.
Raise(e) ==
  /\ pc' = (IF e = OutOfRange THEN "cut" ELSE "raised")
  /\ exc' = e

\* lines 199-212 and 216-217: pricing mode (any mode but impliedvolatility).
MainPrice ==
  /\ pc = "main"
  /\ args.mode # "impliedvolatility"
  /\ \E t \in {ResolveTau(args, now)} :
     \E price \in {option_price(args.s, args.x, args.r, args.sigma, t,
                                IsPut(args.optiontype), FALSE)} :
        /\ converted' = ~Truthy(args.tau)
        /\ IF IsExc(t)
           THEN Raise(t) /\ UNCHANGED <<tau, out, ret>>
           ELSE /\ tau' = t
                /\ IF IsExc(price)
                   THEN Raise(price) /\ UNCHANGED <<out, ret>>
                   ELSE /\ ret' = price
                        /\ out' = Append(out, <<"Option Price:", price>>)
                        /\ pc' = "done"
                        /\ UNCHANGED exc
  /\ UNCHANGED <<args, now, sigma0, sigma, i, bs_p, diff, vega, nprice, nvega,
                 how, hIn, hOut>>

\* lines 199-215 up to the call, and line 168: implied-volatility mode.
MainSolve ==
  /\ pc = "main"
  /\ args.mode = "impliedvolatility"
  /\ \E t \in {ResolveTau(args, now)} :
        /\ converted' = ~Truthy(args.tau)
        /\ IF IsExc(t)
           THEN Raise(t) /\ UNCHANGED <<tau, sigma>>
           ELSE /\ tau' = t
                /\ sigma' = InitialSigma
                /\ pc' = "loop"
                /\ UNCHANGED exc
  /\ UNCHANGED <<args, now, sigma0, i, bs_p, diff, vega, nprice, nvega, out,
                 ret, how, hIn, hOut>>

\* implied_volatility returns v, and main prints it (line 215).
Return(v, by) ==
  /\ ret' = v
  /\ how' = by
  /\ out' = Append(out, <<"Implied Volatility:", v>>)
  /\ pc' = "done"

\* lines 169-180: one iteration of the loop.
Iterate ==
  /\ pc = "loop"
  /\ InRange(i, args.iterations)
  /\ \E p \in {option_price(args.s, args.x, args.r, sigma, tau,
                            IsPut(args.optiontype), i > 0)} :
     \E df \in {FSub(args.mp, p)} :
     \E v \in {IF IsExc(df) \/ Accept(df, args.precision) THEN None
               ELSE _vega(args.s, args.x, args.r, sigma, tau, i > 0)} :
     \E sg \in {FAdd(sigma, FDiv(df, v, TRUE))} :
        /\ nprice' = nprice + 1
        /\ bs_p' = p
        /\ IF IsExc(df)
           THEN /\ Raise(df)
                /\ diff' = None /\ vega' = None
                /\ UNCHANGED <<sigma, i, nvega, out, ret, how>>
           ELSE /\ diff' = df
                /\ IF Accept(df, args.precision)
                   THEN /\ Return(sigma, "converged")
                        /\ vega' = None
                        /\ UNCHANGED <<sigma, i, nvega, exc>>
                   ELSE /\ nvega' = nvega + 1
                        /\ vega' = v
                        /\ IF IsExc(sg)
                           THEN Raise(sg) /\ UNCHANGED <<sigma, i, out, ret, how>>
                           ELSE /\ sigma' = sg
                                /\ out' = Append(out, <<"", sg>>)
                                /\ i' = i + 1
                                /\ UNCHANGED <<pc, ret, exc, how>>
  /\ UNCHANGED <<args, now, sigma0, tau, converted, hIn, hOut>>

\* line 183: the loop is exhausted, the closest estimation is returned.
Exhaust ==
  /\ pc = "loop"
  /\ ~InRange(i, args.iterations)
  /\ Return(sigma, "exhausted")
  /\ UNCHANGED <<args, now, sigma0, tau, converted, sigma, i, bs_p, diff, vega,
                 nprice, nvega, exc, hIn, hOut>>

Next == MainPrice \/ MainSolve \/ Iterate \/ Exhaust

Spec == Init /\ [][Next]_vars

\* ------------------------------------------------------------------------
\* Direct calls of the core functions (a test, or another module)
\* ------------------------------------------------------------------------

\* No run of main: the program's variables stay as they are.
Idle ==
  /\ args = None /\ now = 0 /\ sigma0 = None /\ pc = "idle" /\ tau = None
  /\ converted = FALSE /\ sigma = None /\ i = 0 /\ bs_p = None /\ diff = None
  /\ vega = None /\ nprice = 0 /\ nvega = 0 /\ out = <<>> /\ ret = None
  /\ exc = None /\ how = ""

\* normal_pdf(y, mean, sigma) for some y, mean and sigma.
InitPdf ==
  /\ Idle
  /\ hIn \in [y : {-2 * SCALE, -SCALE, -Fx(1, 2), 0, Fx(1, 2), SCALE, 2 * SCALE},
              mean : {0, SCALE},
              sigma : {-SCALE, 0, Fx(1, 2), SCALE, 2 * SCALE}]
  /\ hOut = None

CallNormalPdf ==
  /\ pc = "idle" /\ hOut = None
  /\ hOut' = normal_pdf(hIn.y, hIn.mean, hIn.sigma)
  /\ UNCHANGED <<mainVars, hIn>>

NextPdf == CallNormalPdf

SpecPdf == InitPdf /\ [][NextPdf]_vars

\* option_price for valid s, x, r, sigma and tau, as a call and as a put.
InitParity ==
  /\ Idle
  /\ hIn \in [s : {SCALE, 2 * SCALE}, x : {SCALE, 2 * SCALE}, r : {0, Fx(1, 20)},
              sigma : {Fx(1, 5), Fx(1, 2), SCALE},
              tau : {Fx(1, 100), SCALE, 2 * SCALE}]
  /\ hOut = [call |-> None, put |-> None]

\* option_price(s, x, r, sigma, tau, "call"): the literal is not the constant "put".
CallPrice ==
  /\ pc = "idle" /\ hOut.call = None
  /\ hOut' = [hOut EXCEPT !.call =
                option_price(hIn.s, hIn.x, hIn.r, hIn.sigma, hIn.tau,
                             IsPut(Str("call", "const")), FALSE)]
  /\ UNCHANGED <<mainVars, hIn>>

\* option_price(s, x, r, sigma, tau, "put"): the literal is the constant "put".
PutPrice ==
  /\ pc = "idle" /\ hOut.put = None
  /\ hOut' = [hOut EXCEPT !.put =
                option_price(hIn.s, hIn.x, hIn.r, hIn.sigma, hIn.tau,
                             IsPut(Str("put", "const")), FALSE)]
  /\ UNCHANGED <<mainVars, hIn>>

NextParity == CallPrice \/ PutPrice

SpecParity == InitParity /\ [][NextParity]_vars

\* ------------------------------------------------------------------------
\* The claims
\* ------------------------------------------------------------------------

\* Rounding units allowed between two ways of computing one real number.
Tol == 2

Solving == pc # "idle" /\ args.mode = "impliedvolatility"
Pricing == pc # "idle" /\ args.mode # "impliedvolatility"
Converged == pc = "done" /\ how = "converged"
Exhausted == pc = "done" /\ how = "exhausted"

\* The price the pricer gives at volatility sg for the run's other arguments,
\* sg being a numpy.float64 if np.
PriceAt(sg, np) ==
  option_price(args.s, args.x, args.r, sg, tau, IsPut(args.optiontype), np)

\* C1: a result returned by line 175 is the very sigma whose price was just
\* evaluated, that price is within precision of mp, and the returning iteration
\* computed no vega and applied no update (one price evaluation more than vegas
\* and updates); while the loop goes on, the last difference was not within
\* precision.
C1_ReturnsAcceptedSigma ==
  /\ Converged =>
       /\ ret = sigma
       /\ bs_p = PriceAt(ret, i > 0)
       /\ FLt(FAbs(FSub(args.mp, PriceAt(ret, i > 0))), args.precision)
       /\ vega = None
       /\ nvega = nprice - 1
       /\ i = nprice - 1
  /\ (pc = "loop" /\ nprice > 0) => ~FLt(FAbs(diff), args.precision)

\* A run that converged after at least one update.
C1_Witness == Converged /\ i > 0 /\ IsFin(ret)

\* C2: the solver evaluates the price at most iterations times and updates
\* sigma at most iterations times, once per evaluation that went on;
\* when the loop is exhausted it has made exactly iterations evaluations and
\* updates and returns the sigma of the last update (0.5 for no iteration),
\* which main prints under the same label as a converged result.
C2_BoundedAndReturnsLast ==
  Solving =>
    /\ nprice <= args.iterations
    /\ nvega <= nprice
    /\ i <= nvega
    /\ pc = "loop" => (i = nprice /\ i = nvega)
    /\ Exhausted =>
         /\ i = args.iterations
         /\ nprice = args.iterations
         /\ ret = sigma
         /\ (args.iterations = 0 => ret = InitialSigma)
         /\ out[Len(out)] = <<"Implied Volatility:", ret>>
    /\ Converged => out[Len(out)] = <<"Implied Volatility:", ret>>

\* A run that used up a budget of at least two iterations.
C2_Witness == Exhausted /\ args.iterations >= 2 /\ ret # InitialSigma

\* C3 (as claimed): an iteration that computed a vega of exactly zero ends the
\* call with an exception, and no sigma or result is inf or nan.
C3_ZeroVegaRaises ==
  /\ vega = 0 => pc = "raised"
  /\ ~(IsInf(sigma) \/ sigma = NAN)
  /\ ~(IsInf(ret) \/ ret = NAN)

\* C4 (as claimed): in pricing mode no price is returned when s <= 0, x <= 0,
\* sigma <= 0 or tau <= 0 (tau being the value passed to option_price).
C4_InvalidInputRaises ==
  (Pricing /\ pc = "done") =>
    /\ args.s > 0
    /\ args.x > 0
    /\ args.sigma > 0
    /\ tau > 0

\* C5: for valid inputs, the call price less the put price is s - x exp(-r tau),
\* to within Tol rounding units.
C5_PutCallParity ==
  (pc = "idle" /\ IsFin(hOut.call) /\ IsFin(hOut.put)) =>
    Abs((hOut.call - hOut.put)
        - FSub(hIn.s, FMul(hIn.x, MathExp(FMul(FNeg(hIn.r), hIn.tau))))) <= Tol

\* Both prices computed, and different.
C5_Witness ==
  /\ pc = "idle"
  /\ IsFin(hOut.call) /\ IsFin(hOut.put) /\ hOut.call > hOut.put /\ hOut.put > 0
  /\ hIn.r > 0

\* C6 (as claimed): for valid inputs, a price main prints for the option type
\* put is the put formula's, and one for the option type call is the call
\* formula's.
C6_PutUsesPutFormula ==
  (Pricing /\ pc = "done" /\ args.s > 0 /\ args.x > 0 /\ args.sigma > 0 /\ tau > 0) =>
    ret = option_price(args.s, args.x, args.r, args.sigma, tau,
                       args.optiontype.str = "put", FALSE)

\* C7 (as claimed): a run that ends normally has printed exactly one line, the
\* labelled result.
C7_OneOutputLine ==
  pc = "done" =>
    /\ Len(out) = 1
    /\ out[1][1] \in {"Option Price:", "Implied Volatility:"}
    /\ out[1][2] = ret

\* C8 (as claimed): when -t is given, time_to_expiry is not called and the
\* value given is the tau passed on.
C8_GivenTauIsUsed ==
  (pc \notin {"idle", "main"} /\ args.tau # None) =>
    /\ ~converted
    /\ tau = args.tau

Density(y, m, sd) ==
  FDiv(MathExp(FNeg(FDiv(MathPow2(FSub(y, m)), FMul(2 * SCALE, MathPow2(sd)),
                         FALSE))),
       FMul(sd, MathSqrt(FMul(2 * SCALE, PI))), FALSE)

\* C10 (as claimed): for a non-zero sigma, normal_pdf is the normal density, to
\* within Tol rounding units.
C10_IsNormalDensity ==
  (pc = "idle" /\ hOut # None /\ hIn.sigma # 0
     /\ IsFin(hOut) /\ IsFin(Density(hIn.y, hIn.mean, hIn.sigma))) =>
    Abs(hOut - Density(hIn.y, hIn.mean, hIn.sigma)) <= Tol

====
